---- MODULE Spec2Model ----
(***************************************************************************)
(* A model of piz, a zero-copy ZIP reader: the directory-end locator       *)
(* (raw.rs, CentralDirectoryRecordEnd::find), the archive handle           *)
(* (lib.rs, Zip::new), the central-directory cursor (lib.rs,               *)
(* NonStrictIter::next) and the extra-field decoder (extra.rs).            *)
(*                                                                         *)
(* A byte buffer is the record [lo, gap, hi]: the bytes of lo, then gap    *)
(* zero bytes, then the bytes of hi.  Byte indices are 0-based, as in the  *)
(* source.  A slice of the buffer is a view [start, len].  All fields are  *)
(* read little-endian, byte by byte, at the offsets the packed structs of  *)
(* raw.rs give them.  TLC's integers are 32 bits wide, so the inputs keep  *)
(* every field value below 2^31.                                           *)
(***************************************************************************)
EXTENDS Integers, Sequences, FiniteSets, TLC

VARIABLES
    data,      \* the caller's buffer
    arch,      \* how the buffer was built (the reference description)
    pc,        \* "start" | "notfound" | "iter" | "extra"
    eocd,      \* what find returned to Zip::new: [found, pos, comment_len, read_end]
    total,     \* Zip.central_dir_records_total
    offset,    \* NonStrictIter.offset
    last,      \* the result of the latest NonStrictIter::next
    yielded,   \* the entries yielded before the first absence
    ended,     \* an absence has been returned
    late,      \* the number of entries yielded after an absence
    calls,     \* the number of next() calls made
    exdata,    \* extra::Iter.data, a view
    exlast,    \* the result of the latest extra::Iter::next
    excount,   \* the number of pairs extra::Iter yielded
    exended    \* extra::Iter has returned an absence

vars == <<data, arch, pc, eocd, total, offset, last, yielded, ended, late,
          calls, exdata, exlast, excount, exended>>

exvars == <<exdata, exlast, excount, exended>>

(***************************************************************************)
(* Program constants.                                                      *)
(***************************************************************************)
CENTRAL_DIR_END_SIGNATURE == 101010256      \* 0x06054b50
CENTRAL_DIR_HEADER_SIGNATURE == 33639248    \* 0x02014b50
LOCAL_FILE_HEADER_SIGNATURE == 67324752     \* 0x04034b50
U16_MAX == 65535
SELF_SIZE == 22                  \* size_of CentralDirectoryRecordEnd
CENTRAL_DIR_HEADER_SIZE == 46    \* size_of CentralDirectoryFileHeader
LOCAL_FILE_HEADER_SIZE == 30     \* size_of LocalFileHeader
ZIP64_EXTRA_SIZE == 28           \* size_of Zip64Extra
EXTRA_PREFIX_SIZE == 4           \* signature_low, signature_high, len_low, len_high
Zip64_SIGNATURE == 1

\* field offsets in the packed structs of raw.rs
EOCD_records_total == 10
EOCD_central_dir_size == 12
EOCD_central_dir_offset == 16
EOCD_comment_length == 20
CDH_compression_method == 10
CDH_decompressed_crc == 16
CDH_compressed_size == 20
CDH_decompressed_size == 24
CDH_filename_len == 28
CDH_extra_field_len == 30
CDH_file_comment_len == 32
CDH_local_file_header_offset == 42
LFH_filename_len == 26
LFH_extra_field_len == 28
Z64_decompressed_size == 0
Z64_compressed_size == 8
Z64_local_header_record_offset == 16

Plain == 0
Deflate == 8

(***************************************************************************)
(* Buffers, views and little-endian reads.                                 *)
(***************************************************************************)
BufLen(d) == Len(d.lo) + d.gap + Len(d.hi)

Byte(d, i) ==
    IF i < 0 THEN 0
    ELSE IF i < Len(d.lo) THEN d.lo[i + 1]
    ELSE IF i < Len(d.lo) + d.gap THEN 0
    ELSE IF i < BufLen(d) THEN d.hi[i - Len(d.lo) - d.gap + 1]
    ELSE 0

RECURSIVE ReadLE(_, _, _)
ReadLE(d, p, n) == IF n = 0 THEN 0 ELSE Byte(d, p) + 256 * ReadLE(d, p + 1, n - 1)

U16(d, p) == ReadLE(d, p, 2)
U32(d, p) == ReadLE(d, p, 4)
U64(d, p) == ReadLE(d, p, 8)

\* the u32 at p equals v; the four bytes are compared, so that no 32-bit
\* value is formed from bytes TLC's integers cannot hold
U32Equals(d, p, v) ==
    /\ Byte(d, p) = v % 256
    /\ Byte(d, p + 1) = (v \div 256) % 256
    /\ Byte(d, p + 2) = (v \div 65536) % 256
    /\ Byte(d, p + 3) = (v \div 16777216) % 256

View(s, n) == [start |-> s, len |-> n]
NoView == View(0, 0)

(***************************************************************************)
(* lib.rs: the bounds-checked splitter and the slice accessors.            *)
(***************************************************************************)
\* slice_split_at without its bounds check
slice_split_at_unchecked(s, index) ==
    [ok |-> TRUE, taken |-> View(s.start, index),
     rest |-> View(s.start + index, s.len - index)]

slice_split_at(s, index) ==
    IF index > s.len
    THEN [ok |-> FALSE, taken |-> NoView, rest |-> NoView]
    ELSE [ok |-> TRUE, taken |-> View(s.start, index),
          rest |-> View(s.start + index, s.len - index)]

\* <[u8]>::get(from..)
SliceFrom(s, from) ==
    IF from > s.len THEN [ok |-> FALSE, view |-> NoView]
    ELSE [ok |-> TRUE, view |-> View(s.start + from, s.len - from)]

\* <[u8]>::get(..to)
SliceTo(s, to) ==
    IF to > s.len THEN [ok |-> FALSE, view |-> NoView]
    ELSE [ok |-> TRUE, view |-> View(s.start, to)]

\* CompressionMethod::from_u16
from_u16(x) ==
    IF x = Plain THEN [ok |-> TRUE, method |-> Plain]
    ELSE IF x = Deflate THEN [ok |-> TRUE, method |-> Deflate]
    ELSE [ok |-> FALSE, method |-> 0]

(***************************************************************************)
(* raw.rs: CentralDirectoryRecordEnd::find.                                *)
(***************************************************************************)
SaturatingSub(a, b) == IF a > b THEN a - b ELSE 0

\* a window count that does not care about having enough bytes
NumWindowsNaive(n) == n

\* the number of windows array_windows::<SELF_SIZE> yields over n bytes
NumWindows(n) == IF n < SELF_SIZE THEN 0 ELSE n - SELF_SIZE + 1

\* the first filter alone
IsCandidateSignatureOnly(d, p, i) == U32Equals(d, p, CENTRAL_DIR_END_SIGNATURE)

\* the two filters: the window at p, the i-th from the end, is accepted
IsCandidate(d, p, i) ==
    /\ U32Equals(d, p, CENTRAL_DIR_END_SIGNATURE)
    /\ U16(d, p + EOCD_comment_length) = i

NotFound == [found |-> FALSE, pos |-> 0, comment_len |-> 0, read_end |-> 0]

find(d) ==
    LET start_offset == SaturatingSub(BufLen(d), U16_MAX)
        n == BufLen(d) - start_offset
        nwin == NumWindows(n)
        \* .rev().enumerate(): index 0 is the last window of the tail
        WindowPos(i) == start_offset + (nwin - 1 - i)
        read_end == IF nwin > 0 THEN WindowPos(0) + SELF_SIZE ELSE 0
        hits == {i \in 0..(nwin - 1) : IsCandidate(d, WindowPos(i), i)}
    IN  IF hits = {}
        THEN [NotFound EXCEPT !.read_end = read_end]
        ELSE LET i == CHOOSE x \in hits : \A y \in hits : x <= y     \* .next()
             IN  [found |-> TRUE, pos |-> WindowPos(i), comment_len |-> i,
                  read_end |-> read_end]

(***************************************************************************)
(* extra.rs: Iter::next, Iterator::find over it, Zip64::parse.             *)
(***************************************************************************)
ExtraAbsent(v) == [some |-> FALSE, signature |-> 0, extra |-> NoView, data |-> v]

\* Iter::next storing the tail before the payload split is known to succeed
ExtraIterNextEager(d, v) ==
    IF v.len >= EXTRA_PREFIX_SIZE
    THEN LET signature == U16(d, v.start)
             len == U16(d, v.start + 2)
             tail == View(v.start + EXTRA_PREFIX_SIZE, v.len - EXTRA_PREFIX_SIZE)
             sp == slice_split_at(tail, len)
         IN  IF sp.ok
             THEN [some |-> TRUE, signature |-> signature, extra |-> sp.taken,
                   data |-> sp.rest]
             ELSE ExtraAbsent(tail)
    ELSE ExtraAbsent(v)

ExtraIterNext(d, v) ==
    IF v.len >= EXTRA_PREFIX_SIZE
    THEN LET signature == U16(d, v.start)
             len == U16(d, v.start + 2)
             tail == View(v.start + EXTRA_PREFIX_SIZE, v.len - EXTRA_PREFIX_SIZE)
             sp == slice_split_at(tail, len)
         IN  IF sp.ok
             THEN [some |-> TRUE, signature |-> signature, extra |-> sp.taken,
                   data |-> sp.rest]
             ELSE ExtraAbsent(v)
    ELSE ExtraAbsent(v)

\* extra_iter.find(|(signature, _)| *signature == Zip64::SIGNATURE)
RECURSIVE ExtraFind(_, _)
ExtraFind(d, v) ==
    LET r == ExtraIterNext(d, v)
    IN  IF ~r.some THEN r
        ELSE IF r.signature = Zip64_SIGNATURE THEN r
        ELSE ExtraFind(d, r.data)

NoZip64 ==
    [ok |-> FALSE, decompressed_size |-> 0, compressed_size |-> 0,
     local_header_record_offset |-> 0]

\* Zip64::parse with the two size fields taken from each other's place
Zip64ParseSwapped(d, v) ==
    IF ~SliceTo(v, ZIP64_EXTRA_SIZE).ok THEN NoZip64
    ELSE [ok |-> TRUE,
          decompressed_size |-> U64(d, v.start + Z64_compressed_size),
          compressed_size |-> U64(d, v.start + Z64_decompressed_size),
          local_header_record_offset |-> U64(d, v.start + Z64_local_header_record_offset)]

Zip64Parse(d, v) ==
    IF ~SliceTo(v, ZIP64_EXTRA_SIZE).ok THEN NoZip64
    ELSE [ok |-> TRUE,
          decompressed_size |-> U64(d, v.start + Z64_decompressed_size),
          compressed_size |-> U64(d, v.start + Z64_compressed_size),
          local_header_record_offset |-> U64(d, v.start + Z64_local_header_record_offset)]

\* .find(..).and_then(|(_, data)| Zip64::parse(data))
FindZip64(d, extra_fields) ==
    LET r == ExtraFind(d, extra_fields)
    IN  IF r.some THEN Zip64Parse(d, r.extra) ELSE NoZip64

(***************************************************************************)
(* lib.rs: NonStrictIter::next.                                            *)
(***************************************************************************)
NoFile ==
    [decompressed_crc |-> 0, decompressed_size |-> 0, compression_method |-> 0,
     extra_fields |-> NoView, filename |-> NoView, comment |-> NoView,
     bytes |-> NoView]

\* next() returned None with the cursor at off; lfo is the offset the local
\* file header was read at, -1 when the call did not get that far
Absent(off, lfo) ==
    [some |-> FALSE, offset |-> off, file |-> NoFile, header |-> -1, local |-> lfo]

\* the tail of next(), from the local file header on; sel holds
\* local_file_offset, compressed_size and decompressed_size as selected,
\* parts the filename, extra_fields and comment slices
Resolve(d, cd, new_offset, sel, parts) ==
    LET whole == View(0, BufLen(d))
        local_file_offset == sel.local_file_offset
        l0 == SliceFrom(whole, local_file_offset)
        l1 == IF l0.ok THEN SliceTo(l0.view, LOCAL_FILE_HEADER_SIZE) ELSE l0
    IN  IF ~l1.ok THEN Absent(new_offset, -1)
        ELSE
        LET lfh == l1.view.start
            packed_file_offset ==
                local_file_offset + U16(d, lfh + LFH_filename_len)
                                  + U16(d, lfh + LFH_extra_field_len)
            b0 == SliceFrom(whole, packed_file_offset)
            b1 == IF b0.ok THEN SliceTo(b0.view, sel.compressed_size) ELSE b0
            method == from_u16(U16(d, cd + CDH_compression_method))
        IN  IF ~b1.ok THEN Absent(new_offset, local_file_offset)
            ELSE IF ~method.ok THEN Absent(new_offset, local_file_offset)
            ELSE [some |-> TRUE, offset |-> new_offset, header |-> cd,
                  local |-> local_file_offset,
                  file |-> [compression_method |-> method.method,
                            decompressed_crc |-> U32(d, cd + CDH_decompressed_crc),
                            decompressed_size |-> sel.decompressed_size,
                            extra_fields |-> parts.extra_fields,
                            filename |-> parts.filename,
                            comment |-> parts.comment,
                            bytes |-> b1.view]]

IterNext(d, off) ==
    LET whole == View(0, BufLen(d))
        s0 == SliceFrom(whole, off)
        h == slice_split_at(s0.view, CENTRAL_DIR_HEADER_SIZE)
    IN  IF ~s0.ok THEN Absent(off, -1)
        ELSE IF ~h.ok THEN Absent(off, -1)
        ELSE
        LET cd == h.taken.start
            filename_len == U16(d, cd + CDH_filename_len)
            extra_fields_len == U16(d, cd + CDH_extra_field_len)
            file_comment_len == U16(d, cd + CDH_file_comment_len)
            f == slice_split_at(h.rest, filename_len)
            e == IF f.ok THEN slice_split_at(f.rest, extra_fields_len) ELSE f
            c == IF e.ok THEN slice_split_at(e.rest, file_comment_len) ELSE e
        IN  IF ~c.ok THEN Absent(off, -1)
            ELSE
            LET zip64 == FindZip64(d, e.taken)
                local_file_offset ==
                    IF zip64.ok THEN zip64.local_header_record_offset
                    ELSE U32(d, cd + CDH_local_file_header_offset)
                compressed_size ==
                    IF zip64.ok THEN zip64.compressed_size
                    ELSE U32(d, cd + CDH_compressed_size)
                decompressed_size ==
                    IF zip64.ok THEN zip64.decompressed_size
                    ELSE U32(d, cd + CDH_decompressed_size)
                total_bytes_len ==
                    CENTRAL_DIR_HEADER_SIZE + filename_len + extra_fields_len
                                            + file_comment_len
            IN  Resolve(d, cd, off + total_bytes_len,
                        [local_file_offset |-> local_file_offset,
                         compressed_size |-> compressed_size,
                         decompressed_size |-> decompressed_size],
                        [filename |-> f.taken, extra_fields |-> e.taken,
                         comment |-> c.taken])

(***************************************************************************)
(* Inputs: byte layouts of the records of raw.rs, and archives built from  *)
(* entry descriptions.                                                     *)
(***************************************************************************)
MaxEntries == 2      \* entries of a generated well-formed archive
MaxCalls == 4        \* next() calls on one NonStrictIter
MaxPad == 1          \* bytes in front of a lone directory-end record
MaxExtraLen == 8     \* bytes of a generated extra-field region
MaxExtraCalls == 3   \* next() calls on one extra::Iter

\* 0x7FFFFFFF: the largest field value TLC's integers hold; it stands for an
\* out-of-range 32-bit field such as the 0xFFFFFFFF sentinel
JUNK32 == 127 * 16777216 + 16777215

RECURSIVE LE(_, _)
LE(v, n) == IF n = 0 THEN <<>> ELSE <<v % 256>> \o LE(v \div 256, n - 1)

Fill(n, b) == [k \in 1..n |-> b]

EncodeEOCD(records, size, off, clen) ==
    LE(CENTRAL_DIR_END_SIGNATURE, 4) \o LE(0, 2) \o LE(0, 2) \o LE(records, 2)
        \o LE(records, 2) \o LE(size, 4) \o LE(off, 4) \o LE(clen, 2)

EncodeLFH(method, crc, csize, dsize, fnlen, exlen) ==
    LE(LOCAL_FILE_HEADER_SIGNATURE, 4) \o LE(20, 2) \o LE(0, 2) \o LE(method, 2)
        \o LE(0, 2) \o LE(0, 2) \o LE(crc, 4) \o LE(csize, 4) \o LE(dsize, 4)
        \o LE(fnlen, 2) \o LE(exlen, 2)

EncodeCDH(method, crc, csize, dsize, fnlen, exlen, cmlen, lfo) ==
    LE(CENTRAL_DIR_HEADER_SIGNATURE, 4) \o LE(20, 2) \o LE(20, 2) \o LE(0, 2)
        \o LE(method, 2) \o LE(0, 2) \o LE(0, 2) \o LE(crc, 4) \o LE(csize, 4)
        \o LE(dsize, 4) \o LE(fnlen, 2) \o LE(exlen, 2) \o LE(cmlen, 2)
        \o LE(0, 2) \o LE(0, 2) \o LE(0, 4) \o LE(lfo, 4)

\* one extra-field record: signal, length prefix, payload
EncodeExtra(signal, payload) == LE(signal, 2) \o LE(Len(payload), 2) \o payload

EncodeZip64(dsize, csize, lfo) ==
    EncodeExtra(Zip64_SIGNATURE, LE(dsize, 8) \o LE(csize, 8) \o LE(lfo, 8) \o LE(0, 4))

(* An entry description e:                                                  *)
(*   name, comment, payload  byte sequences                                 *)
(*   lpad     bytes the local header's file name has beyond the central one *)
(*   lextra   length of the local header's extra field                      *)
(*   method   compression code                                              *)
(*   dsize    decompressed size                                             *)
(*   clen     declared file_comment_len (-1: the comment's length)          *)
(*   z64      the central extra-field chain: "none", "full" (one Zip64      *)
(*            record of 28 bytes), "other_full" (another record, then the   *)
(*            Zip64 record), "short" (a Zip64 signal with 8 payload bytes), *)
(*            "short_full" (that short record, then the 28-byte one)        *)
(*   xdsize   the decompressed size the 28-byte Zip64 record holds          *)
(*   cd32     what the 32-bit central fields hold: "true", "junk" (JUNK32   *)
(*            in all three), "alt" (compressed size 0 and local offset 0)   *)
LocalPart(e) ==
    EncodeLFH(e.method, 0, Len(e.payload), e.dsize, Len(e.name) + e.lpad, e.lextra)
        \o e.name \o Fill(e.lpad, 120) \o Fill(e.lextra, 0) \o e.payload

RECURSIVE LocalOffset(_, _)
LocalOffset(es, k) ==
    IF k <= 1 THEN 0 ELSE LocalOffset(es, k - 1) + Len(LocalPart(es[k - 1]))

HasFull(e) == e.z64 \in {"full", "other_full", "short_full"}

CentralExtra(e, lfo) ==
    LET full == EncodeZip64(e.xdsize, Len(e.payload), lfo)
        short == EncodeExtra(Zip64_SIGNATURE, LE(e.xdsize, 8))
        other == EncodeExtra(21589, <<3, 0, 0, 0, 0>>)
    IN  CASE e.z64 = "full" -> full
          [] e.z64 = "other_full" -> other \o full
          [] e.z64 = "short" -> short
          [] e.z64 = "short_full" -> short \o full
          [] OTHER -> <<>>

Cd32(e, lfo) ==
    CASE e.cd32 = "junk" -> [csize |-> JUNK32, dsize |-> JUNK32, lfo |-> JUNK32]
      [] e.cd32 = "alt" -> [csize |-> 0, dsize |-> e.dsize, lfo |-> 0]
      [] OTHER -> [csize |-> Len(e.payload), dsize |-> e.dsize, lfo |-> lfo]

CentralPart(e, lfo) ==
    LET x == CentralExtra(e, lfo)
        f == Cd32(e, lfo)
    IN  EncodeCDH(e.method, 0, f.csize, f.dsize, Len(e.name), Len(x),
                  IF e.clen < 0 THEN Len(e.comment) ELSE e.clen, f.lfo)
            \o e.name \o x \o e.comment

RECURSIVE CentralOffset(_, _)
CentralOffset(es, k) ==
    IF k <= 1 THEN LocalOffset(es, Len(es) + 1)
    ELSE CentralOffset(es, k - 1)
         + Len(CentralPart(es[k - 1], LocalOffset(es, k - 1)))

RECURSIVE LocalBytes(_, _)
LocalBytes(es, k) ==
    IF k > Len(es) THEN <<>> ELSE LocalPart(es[k]) \o LocalBytes(es, k + 1)

RECURSIVE CentralBytes(_, _)
CentralBytes(es, k) ==
    IF k > Len(es) THEN <<>>
    ELSE CentralPart(es[k], LocalOffset(es, k)) \o CentralBytes(es, k + 1)

\* what a reference extraction gives for entry k
Expected(es, k) ==
    LET e == es[k]
        lfo == LocalOffset(es, k)
        cd == CentralOffset(es, k)
        x == CentralExtra(e, lfo)
    IN  [cd |-> cd,
         filename |-> View(cd + CENTRAL_DIR_HEADER_SIZE, Len(e.name)),
         comment |-> View(cd + CENTRAL_DIR_HEADER_SIZE + Len(e.name) + Len(x),
                          Len(e.comment)),
         lfo |-> lfo,
         local_filename_len |-> Len(e.name) + e.lpad,
         local_extra_len |-> e.lextra,
         cextra_len |-> Len(x),
         csize |-> Len(e.payload),
         z64 |-> e.z64,
         cd32 |-> e.cd32,
         xdsize |-> e.xdsize]

\* the archive: local parts, central directory, directory-end record, and a
\* comment of clen zero bytes; cdoff < 0 stands for the true directory offset
Archive(es, clen, cdoff, wellformed) ==
    LET start == CentralOffset(es, 1)
        end == CentralOffset(es, Len(es) + 1)
    IN  [data |-> [lo |-> LocalBytes(es, 1) \o CentralBytes(es, 1)
                          \o EncodeEOCD(Len(es), end - start,
                                        IF cdoff < 0 THEN start ELSE cdoff, clen),
                   gap |-> clen, hi |-> <<>>],
         arch |-> [family |-> "archive", wellformed |-> wellformed,
                   entries |-> [k \in 1..Len(es) |-> Expected(es, k)],
                   genuine |-> end, declared |-> clen, plain |-> TRUE,
                   forgery |-> "none"]]

EA ==
    [name |-> <<97>>, comment |-> <<>>, payload |-> <<1, 2, 3>>, lpad |-> 0,
     lextra |-> 0, method |-> Plain, dsize |-> 3, clen |-> -1, z64 |-> "none",
     xdsize |-> 0, cd32 |-> "true"]

\* the local header's extra field is longer than the central one
EB ==
    [name |-> <<98, 99>>, comment |-> <<33>>, payload |-> <<9, 9>>, lpad |-> 0,
     lextra |-> 2, method |-> Deflate, dsize |-> 5, clen |-> -1, z64 |-> "none",
     xdsize |-> 0, cd32 |-> "true"]

\* the local header's file name is longer than the central one
EC ==
    [name |-> <<100>>, comment |-> <<>>, payload |-> <<>>, lpad |-> 1,
     lextra |-> 0, method |-> Plain, dsize |-> 0, clen |-> -1, z64 |-> "none",
     xdsize |-> 0, cd32 |-> "true"]

BasicEntries == {EA, EB, EC}
ArchiveComments == {0, 3, 24}
Z64Kinds == {"none", "full", "other_full", "short", "short_full"}
Cd32Modes == {"true", "junk", "alt"}

WithZip64(e, kind, mode) ==
    [e EXCEPT !.z64 = kind, !.cd32 = mode, !.xdsize = e.dsize + 1]

WellFormedInputs ==
    {Archive(es, c, -1, TRUE) :
        es \in UNION {[1..n -> BasicEntries] : n \in 0..MaxEntries},
        c \in ArchiveComments}

Zip64Inputs ==
    {Archive(<<EA, WithZip64(e, k, m)>>, 0, -1, FALSE) :
        e \in {EB, EC}, k \in Z64Kinds, m \in Cd32Modes}
    \cup {Archive(<<WithZip64(EA, k, m), EB>>, 0, -1, FALSE) :
        k \in Z64Kinds, m \in Cd32Modes}

MalformedInputs ==
    {Archive(<<[EA EXCEPT !.method = m], EB>>, 0, -1, FALSE) : m \in {9, 12, 99}}
    \cup {Archive(<<EA, [EB EXCEPT !.clen = U16_MAX]>>, 0, -1, FALSE),
          Archive(<<[EA EXCEPT !.clen = 2], EB>>, 0, -1, FALSE)}
    \cup {Archive(<<EA>>, 0, off, FALSE) : off \in {1, 1000, JUNK32}}

\* a lone directory-end record behind pad bytes, declaring a comment of
\* `declared` bytes and followed by `actual` zero bytes
TailInput(pad, declared, actual) ==
    [data |-> [lo |-> Fill(pad, 7) \o EncodeEOCD(0, 0, pad, declared),
               gap |-> actual, hi |-> <<>>],
     arch |-> [family |-> "tail", wellformed |-> FALSE, entries |-> <<>>,
               genuine |-> pad, declared |-> declared,
               plain |-> (declared = actual), forgery |-> "none"]]

\* a genuine record whose comment is 6 bytes, then a second record carrying
\* the signature and declaring fclen, then `trailing` more bytes
ForgedInput(pad, declared, fclen, trailing) ==
    [data |-> [lo |-> Fill(pad, 7) \o EncodeEOCD(0, 0, pad, declared) \o Fill(6, 65)
                      \o EncodeEOCD(0, 0, pad, fclen) \o Fill(trailing, 66),
               gap |-> 0, hi |-> <<>>],
     arch |-> [family |-> "forged", wellformed |-> FALSE, entries |-> <<>>,
               genuine |-> pad, declared |-> declared, plain |-> FALSE,
               forgery |-> IF fclen = 0 /\ trailing = 0 THEN "at_end" ELSE "inside"]]

\* fewer than SELF_SIZE bytes: the first or the last k bytes of a record
ShortInput(k, front) ==
    LET r == EncodeEOCD(0, 0, 0, 0)
    IN  [data |-> [lo |-> IF front THEN SubSeq(r, 1, k)
                          ELSE SubSeq(r, SELF_SIZE - k + 1, SELF_SIZE),
                   gap |-> 0, hi |-> <<>>],
         arch |-> [family |-> "short", wellformed |-> FALSE, entries |-> <<>>,
                   genuine |-> -1, declared |-> 0, plain |-> FALSE,
                   forgery |-> "none"]]

CommentLens == {0, 1, 26, U16_MAX - SELF_SIZE, U16_MAX - SELF_SIZE + 1, U16_MAX}

TailInputs ==
    {TailInput(pad, c, c) : pad \in 0..MaxPad, c \in CommentLens}
    \cup {TailInput(pad, 5, 4) : pad \in 0..MaxPad}
    \cup {TailInput(pad, 4, 5) : pad \in 0..MaxPad}
    \cup {ForgedInput(pad, s[1], s[2], s[3]) :
            pad \in 0..MaxPad,
            s \in {<<26, 0, 0>>, <<28, 0, 0>>, <<30, 0, 2>>, <<30, 2, 2>>, <<28, 5, 0>>}}
    \cup {ShortInput(k, f) : k \in 0..(SELF_SIZE - 1), f \in BOOLEAN}

Inputs == WellFormedInputs \cup Zip64Inputs \cup MalformedInputs \cup TailInputs

(***************************************************************************)
(* The state machine: Zip::new, then NonStrictIter::next.                  *)
(***************************************************************************)
NoResult == Absent(0, -1)
NoExtraResult == ExtraAbsent(NoView)

Init ==
    /\ \E in \in Inputs : data = in.data /\ arch = in.arch
    /\ pc = "start"
    /\ eocd = NotFound
    /\ total = 0
    /\ offset = 0
    /\ last = NoResult
    /\ yielded = <<>>
    /\ ended = FALSE
    /\ late = 0
    /\ calls = 0
    /\ exdata = NoView
    /\ exlast = NoExtraResult
    /\ excount = 0
    /\ exended = FALSE

\* Zip::new(data)
ZipNew ==
    /\ pc = "start"
    /\ LET r == find(data)
       IN  /\ eocd' = r
           /\ IF r.found
              THEN /\ pc' = "iter"
                   /\ total' = U16(data, r.pos + EOCD_records_total)
                   /\ offset' = U32(data, r.pos + EOCD_central_dir_offset)
              ELSE /\ pc' = "notfound"
                   /\ UNCHANGED <<total, offset>>
    /\ UNCHANGED <<data, arch, last, yielded, ended, late, calls>>
    /\ UNCHANGED exvars

\* central_dir_iter.next()
IterStep ==
    /\ pc = "iter"
    /\ calls < MaxCalls
    /\ LET r == IterNext(data, offset)
       IN  /\ last' = r
           /\ offset' = r.offset
           /\ yielded' = IF r.some /\ ~ended THEN Append(yielded, r) ELSE yielded
           /\ late' = IF r.some /\ ended THEN late + 1 ELSE late
           /\ ended' = (ended \/ ~r.some)
    /\ calls' = calls + 1
    /\ UNCHANGED <<data, arch, pc, eocd, total>>
    /\ UNCHANGED exvars

Next == ZipNew \/ IterStep

Spec == Init /\ [][Next]_vars

(***************************************************************************)
(* The state machine of extra::Iter alone, over a whole region.            *)
(***************************************************************************)
ExtraBytes == {0, 1, 4}

ExtraInit ==
    /\ \E n \in 0..MaxExtraLen : \E region \in [1..n -> ExtraBytes] :
          /\ data = [lo |-> region, gap |-> 0, hi |-> <<>>]
          /\ exdata = View(0, n)
    /\ arch = [family |-> "extra", wellformed |-> FALSE, entries |-> <<>>,
               genuine |-> -1, declared |-> 0, plain |-> FALSE, forgery |-> "none"]
    /\ pc = "extra"
    /\ eocd = NotFound
    /\ total = 0
    /\ offset = 0
    /\ last = NoResult
    /\ yielded = <<>>
    /\ ended = FALSE
    /\ late = 0
    /\ calls = 0
    /\ exlast = NoExtraResult
    /\ excount = 0
    /\ exended = FALSE

\* extra::Iter::next()
ExtraStep ==
    /\ pc = "extra"
    /\ calls < MaxExtraCalls
    /\ LET r == ExtraIterNext(data, exdata)
       IN  /\ exlast' = r
           /\ exdata' = r.data
           /\ excount' = IF r.some THEN excount + 1 ELSE excount
           /\ exended' = (exended \/ ~r.some)
    /\ calls' = calls + 1
    /\ UNCHANGED <<data, arch, pc, eocd, total, offset, last, yielded, ended, late>>

ExtraNext == ExtraStep

ExtraSpec == ExtraInit /\ [][ExtraNext]_vars

(***************************************************************************)
(* The claims.                                                             *)
(***************************************************************************)
\* the entries of the reference description whose central header is at cd
EntriesAt(cd) == {k \in 1..Len(arch.entries) : arch.entries[k].cd = cd}

\* C1: for a buffer whose tail is a genuine directory-end record, 6 comment
\* bytes and a forged record declaring comment_len = 0 that ends at the
\* buffer end, find returns the genuine (topmost) record, not the forged one.
C1_GenuineNotForged ==
    (arch.forgery = "at_end" /\ pc # "start")
        => (eocd.found /\ eocd.pos = arch.genuine)

\* C2: the payload view of every entry yielded from a central header of the
\* archive starts at the local-header offset + 30 + the local header's own
\* filename_len + its own extra_len, and is exactly compressed_size bytes
\* long.
C2_PayloadRange ==
    (last.some /\ EntriesAt(last.header) # {}) =>
        /\ last.file.bytes.start =
               last.local + LOCAL_FILE_HEADER_SIZE
                   + U16(data, last.local + LFH_filename_len)
                   + U16(data, last.local + LFH_extra_field_len)
        /\ \A k \in EntriesAt(last.header) :
               arch.entries[k].cd32 = "true" =>
                   last.file.bytes.len = arch.entries[k].csize

\* C3: iterating a well-formed archive of N entries until the first absence
\* yields exactly N entries, in central-directory order, each with the
\* filename and comment of its central header; nothing is yielded from the
\* bytes after the last central header.
C3_ExactlyNEntries ==
    arch.wellformed =>
        /\ \A k \in 1..Len(yielded) :
               /\ k <= Len(arch.entries)
               /\ yielded[k].header = arch.entries[k].cd
               /\ yielded[k].file.filename = arch.entries[k].filename
               /\ yielded[k].file.comment = arch.entries[k].comment
        /\ ended => Len(yielded) = Len(arch.entries)

\* what the 28-byte Zip64 record of entry k holds
Zip64Applied(k) ==
    /\ last.file.decompressed_size = arch.entries[k].xdsize
    /\ last.file.bytes.len = arch.entries[k].csize
    /\ last.local = arch.entries[k].lfo

\* C4 as stated: for every yielded entry whose extra-field block contains a
\* Zip64 record of at least 28 payload bytes, wherever it sits in the chain
\* and whatever the 32-bit fields hold, the sizes and the local-header offset
\* used are those of the extension.
C4_Zip64Anywhere ==
    last.some =>
        \A k \in EntriesAt(last.header) :
            arch.entries[k].z64 \in {"full", "other_full", "short_full"}
                => Zip64Applied(k)

\* C4 as amended: the same, for every yielded entry whose first extra-field
\* record carrying the signal 0x0001 has at least 28 payload bytes.
C4_Zip64FirstRecord ==
    last.some =>
        \A k \in EntriesAt(last.header) :
            arch.entries[k].z64 \in {"full", "other_full"} => Zip64Applied(k)

\* an entry was yielded whose Zip64 record follows another record, with the
\* 32-bit fields out of range
C4_Witness ==
    /\ last.some
    /\ \E k \in EntriesAt(last.header) :
          /\ arch.entries[k].z64 = "other_full"
          /\ arch.entries[k].cd32 = "junk"
          /\ last.file.decompressed_size # U32(data, last.header + CDH_decompressed_size)

\* C5: for a buffer that ends with a directory-end record followed by exactly
\* comment_len comment bytes holding no other candidate, for every
\* comment_len from 0 to 65535, find returns that record and comment_len.
C5_FoundForEveryCommentLen ==
    (arch.plain /\ pc # "start")
        => /\ eocd.found
           /\ eocd.pos = arch.genuine
           /\ eocd.comment_len = arch.declared

\* the windows find searches: those lying in the last U16_MAX bytes
SearchedWindows(d) ==
    SaturatingSub(BufLen(d), U16_MAX)..(BufLen(d) - SELF_SIZE)

Authentic(d, p) ==
    /\ U32Equals(d, p, CENTRAL_DIR_END_SIGNATURE)
    /\ p + SELF_SIZE + U16(d, p + EOCD_comment_length) = BufLen(d)

\* C6: every record find returns (and so every handle Zip::new builds) is a
\* 22-byte window of the buffer whose signature is 0x06054b50 and whose
\* position + 22 + declared comment_length is the buffer length, and the
\* returned comment length is the declared one; if no searched window
\* satisfies both, the result is "not found".
C6_ReturnedRecordIsAuthentic ==
    pc \in {"iter", "notfound"} =>
        /\ (pc = "iter") = eocd.found
        /\ eocd.found =>
              /\ eocd.pos >= 0
              /\ eocd.pos + SELF_SIZE <= BufLen(data)
              /\ Authentic(data, eocd.pos)
              /\ eocd.comment_len = U16(data, eocd.pos + EOCD_comment_length)
        /\ (\A p \in SearchedWindows(data) : ~Authentic(data, p)) => ~eocd.found

\* a record with a non-empty comment was returned, and a handle built
C6_Witness == pc = "iter" /\ eocd.found /\ eocd.comment_len = 26

\* C7: for every buffer shorter than 22 bytes, the empty one included, find
\* and Zip::new return "not found" and read no byte at or beyond the length.
C7_ShortBufferNotFound ==
    (BufLen(data) < SELF_SIZE /\ pc # "start" /\ pc # "extra")
        => /\ pc = "notfound"
           /\ ~eocd.found
           /\ eocd.read_end <= BufLen(data)

\* Zip::new has answered for a buffer of 21 bytes
C7_Witness == BufLen(data) = SELF_SIZE - 1 /\ pc = "notfound"

\* C8: once next() has returned an absence, every later call returns an
\* absence too: no entry is yielded after an absence.
C8_AbsenceIsFinal == ended => late = 0

\* the header at off and the name, extra and comment it declares lie in d
HeaderFits(d, off) ==
    /\ off <= BufLen(d) - CENTRAL_DIR_HEADER_SIZE
    /\ U16(d, off + CDH_filename_len) + U16(d, off + CDH_extra_field_len)
           + U16(d, off + CDH_file_comment_len)
         <= BufLen(d) - CENTRAL_DIR_HEADER_SIZE - off

\* C9: a next() call never decreases the cursor; a call that changes it
\* leaves it at most the buffer length; a call whose header or
\* filename/extra/comment bounds check fails leaves it unchanged.
C9_CursorWithinBuffer ==
    [][pc = "iter" =>
          /\ offset' >= offset
          /\ offset' # offset => offset' <= BufLen(data)
          /\ ~HeaderFits(data, offset) => (offset' = offset /\ ~last'.some)]_vars

\* entries were yielded, then a call found too few bytes for a header and
\* left the cursor where it was, on the directory-end record
C9_Witness ==
    /\ pc = "iter"
    /\ yielded # <<>>
    /\ ~last.some
    /\ offset = eocd.pos
    /\ ~HeaderFits(data, offset)

\* C10: over a region of L bytes extra::Iter yields at most L \div 4 pairs;
\* a pair takes exactly 4 + declared-length bytes from the front of what
\* remains; the result is an absence as soon as fewer than 4 bytes remain
\* or the declared length exceeds what follows the prefix; after the first
\* absence every call is an absence and what remains is unchanged.
C10_ExtraIterTerminates ==
    [][pc = "extra" =>
          LET L == BufLen(data)
              declared == U16(data, exdata.start + 2)
              stop == exdata.len < EXTRA_PREFIX_SIZE
                        \/ declared > exdata.len - EXTRA_PREFIX_SIZE
          IN  /\ stop => (~exlast'.some /\ exdata' = exdata)
              /\ ~stop =>
                    /\ exlast'.some
                    /\ exlast'.signature = U16(data, exdata.start)
                    /\ exlast'.extra = View(exdata.start + EXTRA_PREFIX_SIZE, declared)
                    /\ exdata' = View(exdata.start + EXTRA_PREFIX_SIZE + declared,
                                      exdata.len - EXTRA_PREFIX_SIZE - declared)
              /\ exended => (~exlast'.some /\ exdata' = exdata /\ excount' = excount)
              /\ excount' * EXTRA_PREFIX_SIZE <= L
              /\ exdata'.len >= 0
              /\ exdata'.start + exdata'.len = L]_vars

\* two pairs were yielded, then an absence
C10_Witness == pc = "extra" /\ excount = 2 /\ exended

====
